---------------------------- MODULE Spec2Model ----------------------------
(***************************************************************************)
(* Model of the address-book assistant (src/task.py): validated fields,    *)
(* Record, AddressBook, pickle persistence, the command handlers wrapped   *)
(* by input_error, and the command loop of main().                         *)
(*                                                                         *)
(* Python strings are sequences of one-character strings, so that          *)
(* validation, strftime and strptime are computed and not assumed.         *)
(* A date is a record [y, m, d].  An Optional value is <<>> (None) or      *)
(* <<v>>.  The AddressBook (a dict, which keeps insertion order) is a      *)
(* sequence of records with pairwise distinct names.                       *)
(***************************************************************************)
EXTENDS Integers, Sequences, FiniteSets, TLC

VARIABLES book, disk, pc, last, adds

vars == <<book, disk, pc, last, adds>>

(***************************************************************************)
(* Bounds of the model.                                                    *)
(***************************************************************************)
MaxPhones == 2

MaxDays == 8

DefaultDays == 7

(***************************************************************************)
(* Characters and strings.                                                 *)
(***************************************************************************)
Digits == <<"0", "1", "2", "3", "4", "5", "6", "7", "8", "9">>

IsDigit(c) == \E i \in 1..Len(Digits) : Digits[i] = c

DigitVal(c) == (CHOOSE i \in 1..Len(Digits) : Digits[i] = c) - 1

DigitChar(n) == Digits[n + 1]

Rep(c, n) == [i \in 1..n |-> c]

None == <<>>

Some(v) == <<v>>

(***************************************************************************)
(* datetime.date                                                           *)
(***************************************************************************)
IsLeap(y) == (y % 4 = 0 /\ y % 100 # 0) \/ y % 400 = 0

DaysInMonth(y, m) ==
    CASE m = 2 -> IF IsLeap(y) THEN 29 ELSE 28
      [] m \in {4, 6, 9, 11} -> 30
      [] OTHER -> 31

ValidDate(y, m, d) ==
    /\ y \in 1..9999
    /\ m \in 1..12
    /\ d \in 1..DaysInMonth(y, m)

MkDate(y, m, d) == [y |-> y, m |-> m, d |-> d]

DaysBeforeYear(y) ==
    LET p == y - 1 IN p * 365 + (p \div 4) - (p \div 100) + (p \div 400)

RECURSIVE DaysBeforeMonth(_, _)
DaysBeforeMonth(y, m) ==
    IF m = 1 THEN 0 ELSE DaysBeforeMonth(y, m - 1) + DaysInMonth(y, m - 1)

ToOrdinal(dt) == DaysBeforeYear(dt.y) + DaysBeforeMonth(dt.y, dt.m) + dt.d

\* date.weekday(): Monday is 0, Saturday 5, Sunday 6
Weekday(dt) == (ToOrdinal(dt) + 6) % 7

DateLT(a, b) == ToOrdinal(a) < ToOrdinal(b)

DateLE(a, b) == ToOrdinal(a) <= ToOrdinal(b)

NextDay(dt) ==
    IF dt.d < DaysInMonth(dt.y, dt.m) THEN MkDate(dt.y, dt.m, dt.d + 1)
    ELSE IF dt.m < 12 THEN MkDate(dt.y, dt.m + 1, 1)
    ELSE MkDate(dt.y + 1, 1, 1)

\* date + timedelta(days = n), n >= 0
RECURSIVE AddDays(_, _)
AddDays(dt, n) == IF n = 0 THEN dt ELSE AddDays(NextDay(dt), n - 1)

\* date.replace(year = y): <<>> stands for the ValueError of an impossible date
ReplaceYear(dt, y) ==
    IF ValidDate(y, dt.m, dt.d) THEN Some(MkDate(y, dt.m, dt.d)) ELSE None

\* strftime("%d.%m.%Y")
Strftime(dt) ==
    << DigitChar(dt.d \div 10), DigitChar(dt.d % 10), ".",
       DigitChar(dt.m \div 10), DigitChar(dt.m % 10), ".",
       DigitChar(dt.y \div 1000), DigitChar((dt.y \div 100) % 10),
       DigitChar((dt.y \div 10) % 10), DigitChar(dt.y % 10) >>

AllDigits(s) == \A i \in 1..Len(s) : IsDigit(s[i])

RECURSIVE ToInt(_)
ToInt(s) ==
    IF Len(s) = 0 THEN 0
    ELSE ToInt(SubSeq(s, 1, Len(s) - 1)) * 10 + DigitVal(s[Len(s)])

\* strptime(s, "%d.%m.%Y").date(): <<>> stands for the ValueError
Strptime(s) ==
    LET dots == {i \in 1..Len(s) : s[i] = "."} IN
    IF Cardinality(dots) # 2 THEN None
    ELSE
      LET p1 == CHOOSE i \in dots : \A j \in dots : i <= j
          p2 == CHOOSE i \in dots : \A j \in dots : j <= i
          ds == SubSeq(s, 1, p1 - 1)
          ms == SubSeq(s, p1 + 1, p2 - 1)
          ys == SubSeq(s, p2 + 1, Len(s))
      IN IF /\ Len(ds) \in {1, 2} /\ Len(ms) \in {1, 2} /\ Len(ys) = 4
            /\ AllDigits(ds) /\ AllDigits(ms) /\ AllDigits(ys)
            /\ ValidDate(ToInt(ys), ToInt(ms), ToInt(ds))
         THEN Some(MkDate(ToInt(ys), ToInt(ms), ToInt(ds)))
         ELSE None

(***************************************************************************)
(* Fields and Record.  A raised exception is the record Exc(type, msg);    *)
(* NoExc is "nothing raised".                                              *)
(***************************************************************************)
Exc(type, msg) == [type |-> type, msg |-> msg]

NoExc == Exc("", "")

\* Phone._validate
PhoneValid(value) == Len(value) > 0 /\ AllDigits(value) /\ Len(value) = 10

\* Record(name)
NewRecord(name) == [name |-> name, phones |-> <<>>, birthday |-> None]

\* Record.add_phone: [rec, exc]
Record_add_phone(rec, phone) ==
    IF PhoneValid(phone)
    THEN [rec |-> [rec EXCEPT !.phones = Append(@, phone)], exc |-> NoExc]
    ELSE [rec |-> rec,
          exc |-> Exc("ValueError", "Phone must contain exactly 10 digits")]

FirstIndex(phones, p) ==
    CHOOSE i \in 1..Len(phones) :
        phones[i] = p /\ \A j \in 1..(i - 1) : phones[j] # p

AllReplaced(phones, old, new) ==
    [i \in 1..Len(phones) |-> IF phones[i] = old THEN new ELSE phones[i]]

\* the loop of Record.edit_phone: the first entry equal to old_phone
ReplaceFirst(phones, old, new) ==
    [phones EXCEPT ![FirstIndex(phones, old)] = new]

\* Record.edit_phone: [rec, exc]
Record_edit_phone(rec, old, new) ==
    IF ~PhoneValid(new)
    THEN [rec |-> rec,
          exc |-> Exc("ValueError", "Phone must contain exactly 10 digits")]
    ELSE IF \E i \in 1..Len(rec.phones) : rec.phones[i] = old
    THEN [rec |-> [rec EXCEPT !.phones = ReplaceFirst(@, old, new)],
          exc |-> NoExc]
    ELSE [rec |-> rec, exc |-> Exc("ValueError", "Old phone not found")]

\* Record.add_birthday (Birthday.__init__): [rec, exc]
Record_add_birthday(rec, s) ==
    IF Strptime(s) # None
    THEN [rec |-> [rec EXCEPT !.birthday = Strptime(s)], exc |-> NoExc]
    ELSE [rec |-> rec,
          exc |-> Exc("ValueError", "Invalid date format. Use DD.MM.YYYY")]

(***************************************************************************)
(* AddressBook                                                             *)
(***************************************************************************)
NamesOf(b) == {b[i].name : i \in 1..Len(b)}

IndexOf(b, name) == CHOOSE i \in 1..Len(b) : b[i].name = name

\* AddressBook.find: None or the record
Find(b, name) == IF name \in NamesOf(b) THEN Some(b[IndexOf(b, name)]) ELSE None

\* AddressBook.add_record: dict assignment keeps the position of a known key
add_record(b, rec) ==
    IF rec.name \in NamesOf(b)
    THEN [b EXCEPT ![IndexOf(b, rec.name)] = rec]
    ELSE Append(b, rec)

\* in-place mutation of the Record object that the book holds
PutBack(b, rec) == [b EXCEPT ![IndexOf(b, rec.name)] = rec]

\* next_bd of get_upcoming_birthdays: <<>> when date.replace raises
NextBd(bday, today) ==
    LET first == ReplaceYear(bday, today.y) IN
    IF first = None THEN None
    ELSE IF DateLT(first[1], today) THEN ReplaceYear(bday, today.y + 1)
    ELSE first

ShiftOneEach(next_bd) ==
    IF Weekday(next_bd) \in {5, 6} THEN AddDays(next_bd, 1) ELSE next_bd

\* congr_date of get_upcoming_birthdays
CongrDate(next_bd) ==
    IF Weekday(next_bd) = 5 THEN AddDays(next_bd, 2)
    ELSE IF Weekday(next_bd) = 6 THEN AddDays(next_bd, 1)
    ELSE next_bd

Entry(name, dt) == [name |-> name, congratulation_date |-> Strftime(dt)]

\* the for loop of get_upcoming_birthdays from record i on: [exc, result]
RECURSIVE Scan(_, _, _, _, _)
Scan(b, i, today, end_day, acc) ==
    IF i > Len(b) THEN [exc |-> NoExc, result |-> acc]
    ELSE IF b[i].birthday = None THEN Scan(b, i + 1, today, end_day, acc)
    ELSE
      LET next_bd == NextBd(b[i].birthday[1], today) IN
      IF next_bd = None
      THEN [exc |-> Exc("ValueError", "day is out of range for month"),
            result |-> <<>>]
      ELSE IF DateLE(today, next_bd[1]) /\ DateLE(next_bd[1], end_day)
      THEN Scan(b, i + 1, today, end_day,
                Append(acc, Entry(b[i].name, CongrDate(next_bd[1]))))
      ELSE Scan(b, i + 1, today, end_day, acc)

\* the string ordered as text: digits of DD.MM.YYYY read as one number
LexKey(s) == ToInt(SelectSeq(s, IsDigit))

\* key = lambda s: datetime.strptime(s, "%d.%m.%Y")
DateKey(s) == ToOrdinal(Strptime(s)[1])

\* list.sort / sorted are stable: x goes after every element with key <= key(x)
RECURSIVE InsertByKey(_, _)
InsertByKey(sorted, x) ==
    IF Len(sorted) = 0 THEN <<x>>
    ELSE IF sorted[Len(sorted)].k <= x.k THEN Append(sorted, x)
    ELSE Append(InsertByKey(SubSeq(sorted, 1, Len(sorted) - 1), x),
                sorted[Len(sorted)])

RECURSIVE SortKeyed(_)
SortKeyed(s) ==
    IF Len(s) = 0 THEN <<>>
    ELSE InsertByKey(SortKeyed(SubSeq(s, 1, Len(s) - 1)), s[Len(s)])

Values(sorted) == [i \in 1..Len(sorted) |-> sorted[i].v]

EntryKey(e) == DateKey(e.congratulation_date)

\* result.sort(key = ...)
SortEntries(es) ==
    Values(SortKeyed([i \in 1..Len(es) |-> [k |-> EntryKey(es[i]), v |-> es[i]]]))

\* sorted(by_date, key = ...)
SortDates(ds) ==
    Values(SortKeyed([i \in 1..Len(ds) |-> [k |-> DateKey(ds[i]), v |-> ds[i]]]))

\* AddressBook.get_upcoming_birthdays: [exc, result]
get_upcoming_birthdays(b, days, today) ==
    LET r == Scan(b, 1, today, AddDays(today, days), <<>>) IN
    IF r.exc # NoExc THEN r
    ELSE [exc |-> NoExc, result |-> SortEntries(r.result)]

(***************************************************************************)
(* Persistence.  A file is [exists, data]; data is the pickle stream, one  *)
(* token per opcode group: the class, one item per record, the final STOP. *)
(***************************************************************************)
Tok(op, val) == [op |-> op, val |-> val]

Pickle(b) ==
    <<Tok("GLOBAL AddressBook", <<>>)>>
    \o [i \in 1..Len(b) |-> Tok("SETITEM", <<b[i]>>)]
    \o <<Tok("STOP", <<>>)>>

NoFile == [exists |-> FALSE, data |-> <<>>]

File(data) == [exists |-> TRUE, data |-> data]

\* save_data, run to completion
save_data(b) == File(Pickle(b))

\* load_data
load_data(f) ==
    IF ~f.exists THEN <<>>
    ELSE IF Len(f.data) = 0 THEN <<>>                        \* EOFError
    ELSE IF f.data[1].op = "GARBAGE" THEN <<>>               \* UnpicklingError
    ELSE IF f.data[Len(f.data)].op # "STOP" THEN <<>>        \* truncated
    ELSE IF f.data[1].op # "GLOBAL AddressBook" THEN <<>>    \* not isinstance
    ELSE [i \in 1..(Len(f.data) - 2) |-> f.data[i + 1].val[1]]

(***************************************************************************)
(* Command handlers.  A handler body yields [book, ret, exc]; ret is the   *)
(* returned text [msg, lines], a line being [head, items, tail].           *)
(***************************************************************************)
Ret(msg, lines) == [msg |-> msg, lines |-> lines]

Line(head, items, tail) == [head |-> head, items |-> items, tail |-> tail]

Returned(b, ret) == [book |-> b, ret |-> ret, exc |-> NoExc]

Raised(b, exc) == [book |-> b, ret |-> Ret("", <<>>), exc |-> exc]

\* "name, phone, *_ = args" on a list that is too short
UnpackMsg(expected, got) ==
    CASE expected = 1 ->
           "not enough values to unpack (expected at least 1, got 0)"
      [] expected = 2 /\ got = 0 ->
           "not enough values to unpack (expected at least 2, got 0)"
      [] expected = 2 /\ got = 1 ->
           "not enough values to unpack (expected at least 2, got 1)"
      [] expected = 3 /\ got = 0 ->
           "not enough values to unpack (expected at least 3, got 0)"
      [] expected = 3 /\ got = 1 ->
           "not enough values to unpack (expected at least 3, got 1)"
      [] OTHER ->
           "not enough values to unpack (expected at least 3, got 2)"

UnpackError(expected, got) == Exc("ValueError", UnpackMsg(expected, got))

\* the decorator input_error applied to a handler outcome: the text returned
input_error(r) ==
    CASE r.exc = NoExc -> r.ret
      [] r.exc.type = "KeyError" -> Ret("Contact not found.", <<>>)
      [] r.exc.type = "ValueError" -> Ret(r.exc.msg, <<>>)
      [] r.exc.type = "IndexError" -> Ret("Not enough arguments.", <<>>)
      [] OTHER -> Ret("Contact not found.", <<>>)

add_contact_fresh(args, b) ==
    IF Len(args) < 2 THEN Raised(b, UnpackError(2, Len(args)))
    ELSE
      LET record == NewRecord(args[1])
          b1 == add_record(b, record)
          r == Record_add_phone(record, args[2])
      IN IF Len(args[2]) = 0 THEN Returned(b1, Ret("Contact added.", <<>>))
         ELSE IF r.exc # NoExc THEN Raised(b1, r.exc)
         ELSE Returned(PutBack(b1, r.rec), Ret("Contact added.", <<>>))

add_contact(args, b) ==
    IF Len(args) < 2 THEN Raised(b, UnpackError(2, Len(args)))
    ELSE
      LET name == args[1]
          phone == args[2]
          found == Find(b, name)
          record == IF found = None THEN NewRecord(name) ELSE found[1]
          b1 == IF found = None THEN add_record(b, record) ELSE b
          message == IF found = None THEN "Contact added."
                     ELSE "Contact updated."
          r == Record_add_phone(record, phone)
      IN IF Len(phone) = 0 THEN Returned(b1, Ret(message, <<>>))
         ELSE IF r.exc # NoExc THEN Raised(b1, r.exc)
         ELSE Returned(PutBack(b1, r.rec), Ret(message, <<>>))

change_contact(args, b) ==
    IF Len(args) < 3 THEN Raised(b, UnpackError(3, Len(args)))
    ELSE
      LET found == Find(b, args[1]) IN
      IF found = None THEN Raised(b, Exc("KeyError", ""))
      ELSE
        LET r == Record_edit_phone(found[1], args[2], args[3]) IN
        IF r.exc # NoExc THEN Raised(b, r.exc)
        ELSE Returned(PutBack(b, r.rec), Ret("Phone updated.", <<>>))

show_phones(args, b) ==
    IF Len(args) < 1 THEN Raised(b, UnpackError(1, Len(args)))
    ELSE
      LET found == Find(b, args[1]) IN
      IF found = None THEN Raised(b, Exc("KeyError", ""))
      ELSE IF Len(found[1].phones) = 0 THEN Returned(b, Ret("No phones.", <<>>))
      ELSE Returned(b, Ret("", <<Line(<<>>, found[1].phones, <<>>)>>))

Dash == <<"-">>

\* Record.__str__
Record_str(rec) ==
    Line(rec.name,
         IF Len(rec.phones) > 0 THEN rec.phones ELSE <<Dash>>,
         IF rec.birthday # None THEN Strftime(rec.birthday[1]) ELSE Dash)

show_all(args, b) ==
    IF Len(b) = 0 THEN Returned(b, Ret("Address book is empty.", <<>>))
    ELSE Returned(b, Ret("", [i \in 1..Len(b) |-> Record_str(b[i])]))

add_birthday(args, b) ==
    IF Len(args) < 2 THEN Raised(b, UnpackError(2, Len(args)))
    ELSE
      LET name == args[1]
          found == Find(b, name)
          record == IF found = None THEN NewRecord(name) ELSE found[1]
          b1 == IF found = None THEN add_record(b, record) ELSE b
          r == Record_add_birthday(record, args[2])
      IN IF r.exc # NoExc THEN Raised(b1, r.exc)
         ELSE Returned(PutBack(b1, r.rec), Ret("Birthday added.", <<>>))

show_birthday(args, b) ==
    IF Len(args) < 1 THEN Raised(b, UnpackError(1, Len(args)))
    ELSE
      LET found == Find(b, args[1]) IN
      IF found = None THEN Raised(b, Exc("KeyError", ""))
      ELSE IF found[1].birthday = None
      THEN Returned(b, Ret("No birthday set.", <<>>))
      ELSE Returned(b, Ret("", <<Line(Strftime(found[1].birthday[1]),
                                      <<>>, <<>>)>>))

\* keys of by_date, in order of first insertion
RECURSIVE DateKeys(_)
DateKeys(upcoming) ==
    IF Len(upcoming) = 0 THEN <<>>
    ELSE
      LET front == DateKeys(SubSeq(upcoming, 1, Len(upcoming) - 1))
          dt == upcoming[Len(upcoming)].congratulation_date
      IN IF \E i \in 1..Len(front) : front[i] = dt THEN front
         ELSE Append(front, dt)

RECURSIVE MapNames(_)
MapNames(es) ==
    IF Len(es) = 0 THEN <<>>
    ELSE Append(MapNames(SubSeq(es, 1, Len(es) - 1)), es[Len(es)].name)

\* by_date[dt]
NamesOn(upcoming, dt) ==
    LET OnDt(e) == e.congratulation_date = dt IN
    MapNames(SelectSeq(upcoming, OnDt))

birthdays(args, b, today) ==
    LET up == get_upcoming_birthdays(b, DefaultDays, today) IN
    IF up.exc # NoExc THEN Raised(b, up.exc)
    ELSE IF Len(up.result) = 0
    THEN Returned(b, Ret("No birthdays in the next 7 days.", <<>>))
    ELSE
      LET keys == SortDates(DateKeys(up.result)) IN
      Returned(b, Ret("", [i \in 1..Len(keys) |->
                              Line(keys[i], NamesOn(up.result, keys[i]), <<>>)]))

(***************************************************************************)
(* Inputs.                                                                 *)
(***************************************************************************)
Ann == <<"A", "n", "n">>

Bob == <<"B", "o", "b">>

Cy == <<"C", "y">>

Names == {Ann, Bob}

ValidPhones == {Rep("1", 10), Rep("2", 10)}

PhoneInputs == ValidPhones \cup {Rep("3", 3)}

BirthdayInputs ==
    { Strftime(MkDate(1990, 6, 15)),
      <<"3", "2", ".", "0", "1", ".", "2", "0", "0", "0">> }

\* values of date.today()
Todays ==
    { MkDate(2023, 12, 25), MkDate(2023, 12, 28), MkDate(2024, 2, 25),
      MkDate(2024, 3, 1), MkDate(2024, 6, 8), MkDate(2024, 6, 10),
      MkDate(2024, 6, 15), MkDate(2024, 6, 17) }

\* values of date.today() while the command loop runs
LoopTodays == {MkDate(2023, 12, 28), MkDate(2024, 6, 10)}

AddArgs ==
    {<<>>, <<Ann>>, <<Ann, Rep("1", 10), Rep("2", 10)>>}
    \cup {<<n, p>> : n \in Names, p \in PhoneInputs}

ChangeArgs ==
    {<<>>, <<Ann>>, <<Ann, Rep("1", 10)>>}
    \cup {<<n, o, p>> : n \in Names, o \in ValidPhones, p \in PhoneInputs}

NameArgs == {<<>>} \cup {<<n>> : n \in Names}

BirthdayArgs ==
    {<<>>, <<Bob>>} \cup {<<n, s>> : n \in Names, s \in BirthdayInputs}

(***************************************************************************)
(* The command loop of main().                                             *)
(*   pc = "input"    blocked in input("Enter a command: ")                 *)
(*   pc = "crashed"  the process stopped during save_data                  *)
(*   pc = "done"     the loop was left by close / exit                     *)
(* last records the command processed last: its arguments, the text        *)
(* printed, and the book and the file as they were before it.              *)
(* adds is the history of the add commands of the session.                 *)
(***************************************************************************)
NoLast ==
    [cmd |-> "start", args |-> <<>>, out |-> Ret("", <<>>),
     result |-> <<>>, raised |-> FALSE, book |-> <<>>, disk |-> NoFile,
     today |-> None, days |-> 0]

NoAdds == [only |-> FALSE, used |-> {}, log |-> [n \in Names |-> <<>>]]

FreshAdds(b) == [NoAdds EXCEPT !.only = (b = <<>>)]

MutatingButBirthday(cmd) == cmd \in {"add", "change"}

\* the commands after which main() sets mutating = True
Mutating(cmd) == cmd \in {"add", "change", "add-birthday"}

\* save_data(book): it completes, or the process stops after open(.., "wb")
\* has emptied the file and k tokens of the stream have reached it
Save(b, next) ==
    \/ /\ disk' = save_data(b)
       /\ pc' = next
    \/ \E k \in 0..Len(Pickle(b)) :
          /\ disk' = File(SubSeq(Pickle(b), 1, k))
          /\ pc' = "crashed"

AddsAfter(cmd, args) ==
    IF ~adds.only THEN adds
    ELSE IF cmd = "add" THEN
        IF Len(args) < 2 THEN adds
        ELSE [adds EXCEPT
                !.used = @ \cup {args[1]},
                !.log[args[1]] =
                    IF PhoneValid(args[2]) THEN Append(@, args[2]) ELSE @]
    ELSE IF Mutating(cmd) THEN NoAdds
    ELSE adds

\* one iteration of the while loop for a command with a handler
Run(cmd, args, r, today) ==
    /\ pc = "input"
    /\ book' = r.book
    /\ last' = [NoLast EXCEPT !.cmd = cmd, !.args = args,
                  !.out = input_error(r), !.book = book, !.disk = disk,
                  !.today = today]
    /\ adds' = AddsAfter(cmd, args)
    /\ IF Mutating(cmd) THEN Save(r.book, "input")
       ELSE disk' = disk /\ pc' = "input"

PhonesOf(b, name) == IF name \in NamesOf(b) THEN b[IndexOf(b, name)].phones
                     ELSE <<>>

Add ==
    \E args \in AddArgs :
       /\ Len(args) >= 2 /\ PhoneValid(args[2])
             => Len(PhonesOf(book, args[1])) < MaxPhones
       /\ Run("add", args, add_contact(args, book), None)

Change ==
    \E args \in ChangeArgs :
       Run("change", args, change_contact(args, book), None)

Phone ==
    \E args \in NameArgs : Run("phone", args, show_phones(args, book), None)

All == Run("all", <<>>, show_all(<<>>, book), None)

AddBirthday ==
    \E args \in BirthdayArgs :
       Run("add-birthday", args, add_birthday(args, book), None)

ShowBirthday ==
    \E args \in NameArgs :
       Run("show-birthday", args, show_birthday(args, book), None)

Birthdays ==
    \E today \in LoopTodays :
       Run("birthdays", <<>>, birthdays(<<>>, book, today), Some(today))

\* "hello", and the else branch "Invalid command."
Hello ==
    \E c \in {"hello", "invalid"} :
       Run(c, <<>>,
           Returned(book, Ret(IF c = "hello" THEN "How can I help you?"
                              ELSE "Invalid command.", <<>>)), None)

\* close / exit: save_data(book), then break
Exit ==
    /\ pc = "input"
    /\ book' = book
    /\ last' = [NoLast EXCEPT !.cmd = "exit", !.out = Ret("Good bye!", <<>>),
                  !.book = book, !.disk = disk]
    /\ adds' = adds
    /\ Save(book, "done")

\* the program is started again: book = load_data()
Start ==
    /\ pc \in {"crashed", "done"}
    /\ book' = load_data(disk)
    /\ pc' = "input"
    /\ last' = NoLast
    /\ adds' = FreshAdds(load_data(disk))
    /\ disk' = disk

\* what the data file may hold when the program is first started
InitDisks ==
    { NoFile,
      File(<<Tok("GARBAGE", <<>>)>>),
      File(<<Tok("GLOBAL dict", <<>>), Tok("STOP", <<>>)>>),
      save_data(<<>>),
      save_data(<<[name |-> Bob, phones |-> <<Rep("2", 10)>>,
                   birthday |-> Some(MkDate(1990, 6, 15))]>>) }

Init ==
    /\ disk \in InitDisks
    /\ book = load_data(disk)
    /\ pc = "input"
    /\ last = NoLast
    /\ adds = FreshAdds(book)

Next ==
    \/ Add
    \/ Change
    \/ Phone
    \/ All
    \/ AddBirthday
    \/ ShowBirthday
    \/ Birthdays
    \/ Hello
    \/ Exit
    \/ Start

Spec == Init /\ [][Next]_vars

(***************************************************************************)
(* The birthday scan on its own: get_upcoming_birthdays and the birthdays  *)
(* handler applied to books of up to three records, for every window       *)
(* 0..MaxDays and every date.today() of Todays.                            *)
(***************************************************************************)
BdayDates ==
    { MkDate(1990, 6, 12), MkDate(1990, 6, 15), MkDate(1991, 6, 16),
      MkDate(1985, 6, 17), MkDate(1999, 12, 30), MkDate(1980, 12, 29),
      MkDate(2001, 1, 2), MkDate(2000, 2, 29) }

BdayOptions == {None} \cup {Some(d) : d \in BdayDates}

ScanNames == <<Ann, Bob, Cy>>

ScanBooks ==
    UNION { [1..n -> BdayOptions] : n \in 0..Len(ScanNames) }

BookOf(f) ==
    [i \in DOMAIN f |-> [name |-> ScanNames[i], phones |-> <<>>,
                         birthday |-> f[i]]]

ScanInit ==
    /\ \E f \in ScanBooks : book = BookOf(f)
    /\ disk = NoFile
    /\ pc = "input"
    /\ last = NoLast
    /\ adds = NoAdds

\* book.get_upcoming_birthdays(days)
CallUpcoming ==
    \E days \in 0..MaxDays, today \in Todays :
       LET r == get_upcoming_birthdays(book, days, today) IN
       /\ last.cmd = "start"
       /\ last' = [NoLast EXCEPT !.cmd = "upcoming", !.result = r.result,
                     !.raised = (r.exc # NoExc), !.book = book,
                     !.today = Some(today), !.days = days]
       /\ UNCHANGED <<book, disk, pc, adds>>

\* birthdays(args, book)
CallBirthdays ==
    \E today \in LoopTodays :
       LET r == birthdays(<<>>, book, today) IN
       /\ last.cmd = "start"
       /\ last' = [NoLast EXCEPT !.cmd = "birthdays", !.out = input_error(r),
                     !.book = book, !.today = Some(today),
                     !.days = DefaultDays]
       /\ UNCHANGED <<book, disk, pc, adds>>

ScanNext == CallUpcoming \/ CallBirthdays

ScanSpec == ScanInit /\ [][ScanNext]_vars

(***************************************************************************)
(* Properties.                                                             *)
(***************************************************************************)
Before(a, b) ==
    \/ a.y < b.y
    \/ a.y = b.y /\ a.m < b.m
    \/ a.y = b.y /\ a.m = b.m /\ a.d < b.d

\* the birthday's month/day in today's year, or in the next year when that
\* date is strictly before today
NextOccurrence(bday, today) ==
    IF Before(MkDate(today.y, bday.m, bday.d), today)
    THEN MkDate(today.y + 1, bday.m, bday.d)
    ELSE MkDate(today.y, bday.m, bday.d)

InWindow(rec, today, days) ==
    /\ rec.birthday # None
    /\ LET n == ToOrdinal(NextOccurrence(rec.birthday[1], today)) IN
       ToOrdinal(today) <= n /\ n <= ToOrdinal(today) + days

TimesListed(result, name) ==
    Cardinality({k \in 1..Len(result) : result[k].name = name})

\* a 29 February birthday whose next occurrence falls in a common year
LeapProblem(rec, today) ==
    /\ rec.birthday # None
    /\ rec.birthday[1].m = 2 /\ rec.birthday[1].d = 29
    /\ ~IsLeap(NextOccurrence(rec.birthday[1], today).y)

ParsedOrdinal(s) == ToOrdinal(Strptime(s)[1])

\* C1: get_upcoming_birthdays returns, for every book, today and window,
\* exactly one entry for each record whose birthday's next occurrence lies in
\* [today, today + days] (both ends included) and none for any other record.
C1_WindowExact ==
    last.cmd = "upcoming" =>
       /\ ~last.raised
       /\ \A i \in 1..Len(last.book) :
             TimesListed(last.result, last.book[i].name) =
                IF InWindow(last.book[i], last.today[1], last.days)
                THEN 1 ELSE 0

\* C2: every returned congratulation date is the next occurrence moved by two
\* days from a Saturday, by one day from a Sunday and not at all otherwise; it
\* is never a Saturday or Sunday and lies at most two days past the window.
C2_WeekendShift ==
    last.cmd = "upcoming" /\ ~last.raised =>
       \A k \in 1..Len(last.result) :
          LET rec == last.book[IndexOf(last.book, last.result[k].name)]
              n == NextOccurrence(rec.birthday[1], last.today[1])
              c == ParsedOrdinal(last.result[k].congratulation_date)
              shift == CASE Weekday(n) = 5 -> 2
                         [] Weekday(n) = 6 -> 1
                         [] OTHER -> 0
          IN /\ c = ToOrdinal(n) + shift
             /\ (c + 6) % 7 \notin {5, 6}
             /\ c <= ToOrdinal(last.today[1]) + last.days + 2

\* a Saturday birthday on the last day of the window, congratulated after it
C2_Witness ==
    /\ last.cmd = "upcoming" /\ ~last.raised
    /\ \E k \in 1..Len(last.result) :
          LET rec == last.book[IndexOf(last.book, last.result[k].name)]
              n == NextOccurrence(rec.birthday[1], last.today[1])
          IN /\ Weekday(n) = 5
             /\ ToOrdinal(n) = ToOrdinal(last.today[1]) + last.days
             /\ ParsedOrdinal(last.result[k].congratulation_date)
                   = ToOrdinal(last.today[1]) + last.days + 2

\* C3: with a 29 February birthday and a common target year in the book the
\* scan does not abort: it returns, and every other record in the window is
\* listed; the birthdays handler lists dates instead of the date error.
C3_LeapSkipped ==
    /\ last.cmd = "upcoming"
         /\ (\E i \in 1..Len(last.book) :
                LeapProblem(last.book[i], last.today[1]))
       => /\ ~last.raised
          /\ \A i \in 1..Len(last.book) :
                ~LeapProblem(last.book[i], last.today[1])
                /\ InWindow(last.book[i], last.today[1], last.days)
                => TimesListed(last.result, last.book[i].name) = 1
    /\ last.cmd = "birthdays"
       => last.out.msg # "day is out of range for month"

\* C8: the result of get_upcoming_birthdays is in ascending order of the
\* congratulation dates taken as calendar dates, and the birthdays handler
\* prints one line per distinct congratulation date in strictly ascending
\* calendar order.
C8_AscendingDates ==
    /\ last.cmd = "upcoming" /\ ~last.raised =>
          \A i, j \in 1..Len(last.result) :
             i < j => ParsedOrdinal(last.result[i].congratulation_date)
                        <= ParsedOrdinal(last.result[j].congratulation_date)
    /\ last.cmd = "birthdays" /\ Len(last.out.lines) > 0 =>
          /\ \A i, j \in 1..Len(last.out.lines) :
                i < j => ParsedOrdinal(last.out.lines[i].head)
                           < ParsedOrdinal(last.out.lines[j].head)
          /\ LET up == get_upcoming_birthdays(last.book, DefaultDays,
                                              last.today[1]).result
             IN {last.out.lines[i].head : i \in 1..Len(last.out.lines)}
                  = {up[k].congratulation_date : k \in 1..Len(up)}

\* a window over the turn of the year: a December date before a January date
C8_Witness ==
    /\ last.cmd = "birthdays"
    /\ Len(last.out.lines) >= 2
    /\ Strptime(last.out.lines[1].head)[1].m = 12
    /\ Strptime(last.out.lines[2].head)[1].m = 1
    /\ Len(last.out.lines[2].items) >= 2

\* C4: when the loop waits for the next command after add, change or
\* add-birthday, and after close / exit, loading the data file yields the
\* collection that is in memory.
C4_SnapshotCurrent ==
    /\ pc = "input" /\ last.cmd \in {"add", "change", "add-birthday"}
          => load_data(disk) = book
    /\ pc = "done" => load_data(disk) = book

\* an add-birthday that changed a non-empty collection, now saved
C4_Witness ==
    /\ pc = "input"
    /\ last.cmd = "add-birthday"
    /\ book # last.book
    /\ last.disk.exists
    /\ Len(book) = 2

\* C5: when the process stops during save_data, loading the file yields the
\* collection that was on disk before the save or the collection being saved.
C5_AtomicSave ==
    pc = "crashed" =>
       \/ load_data(disk) = load_data(last.disk)
       \/ load_data(disk) = book

\* C6: change on an existing record: a valid new phone replaces the first
\* entry equal to the old one, in place, and nothing else; without such an
\* entry the phones are unchanged and the not-found error is reported; with
\* an invalid new phone the phones are unchanged and the validation error is
\* reported.
C6_EditFirstOnly ==
    last.cmd = "change" /\ Len(last.args) >= 3
       /\ last.args[1] \in NamesOf(last.book) =>
       LET pre == PhonesOf(last.book, last.args[1])
           post == PhonesOf(book, last.args[1])
           old == last.args[2]
           new == last.args[3]
           has == \E i \in 1..Len(pre) : pre[i] = old
       IN /\ PhoneValid(new) /\ has =>
                /\ Len(post) = Len(pre)
                /\ \E i \in 1..Len(pre) :
                      /\ pre[i] = old
                      /\ \A j \in 1..(i - 1) : pre[j] # old
                      /\ post[i] = new
                      /\ \A j \in 1..Len(pre) : j # i => post[j] = pre[j]
                /\ last.out.msg = "Phone updated."
          /\ PhoneValid(new) /\ ~has =>
                post = pre /\ last.out.msg = "Old phone not found"
          /\ ~PhoneValid(new) =>
                /\ post = pre
                /\ last.out.msg = "Phone must contain exactly 10 digits"

\* the old phone occurs twice and only its first occurrence was replaced
C6_Witness ==
    /\ last.cmd = "change" /\ Len(last.args) >= 3
    /\ last.out.msg = "Phone updated."
    /\ last.args[2] # last.args[3]
    /\ LET pre == PhonesOf(last.book, last.args[1]) IN
       /\ Len(pre) >= 2
       /\ \A i \in 1..Len(pre) : pre[i] = last.args[2]
    /\ PhonesOf(book, last.args[1])[2] = last.args[2]

\* C7: after add commands only, the collection holds exactly one record per
\* name used, with the valid phones given for that name in call order; an
\* add for a known name keeps the record's place, its birthday and its
\* earlier phones.
C7_AddAppends ==
    /\ adds.only =>
          /\ NamesOf(book) = adds.used
          /\ Cardinality(NamesOf(book)) = Len(book)
          /\ \A i \in 1..Len(book) : book[i].phones = adds.log[book[i].name]
    /\ last.cmd = "add" /\ Len(last.args) >= 2
          /\ last.args[1] \in NamesOf(last.book) =>
          LET i == IndexOf(last.book, last.args[1]) IN
          /\ Len(book) = Len(last.book)
          /\ book[i].name = last.args[1]
          /\ book[i].birthday = last.book[i].birthday
          /\ book[i].phones =
                IF PhoneValid(last.args[2])
                THEN Append(last.book[i].phones, last.args[2])
                ELSE last.book[i].phones

\* two adds for one name, a third for another, all phones kept in order
C7_Witness ==
    /\ adds.only
    /\ Len(book) = 2
    /\ last.cmd = "add" /\ Len(last.args) >= 2
    /\ last.args[1] = book[1].name
    /\ Len(book[1].phones) = 2
    /\ book[1].phones[1] # book[1].phones[2]
    /\ Len(last.book[1].phones) = 1

RequiredArgs(cmd) ==
    CASE cmd = "add" -> 2
      [] cmd = "change" -> 3
      [] cmd = "phone" -> 1
      [] cmd = "add-birthday" -> 2
      [] cmd = "show-birthday" -> 1
      [] OTHER -> 0

\* C9: a handler called with fewer arguments than it requires returns
\* "Not enough arguments." and leaves the collection unchanged.
C9_NotEnoughArguments ==
    Len(last.args) < RequiredArgs(last.cmd) =>
       /\ last.out.msg = "Not enough arguments."
       /\ book = last.book

SuccessMessages ==
    {"Contact added.", "Contact updated.", "Phone updated.", "Birthday added."}

\* C10: a mutating handler that returns an error message leaves the
\* collection as it was, and the snapshot saved afterwards holds no record
\* that did not exist before.
C10_ErrorLeavesBook ==
    last.cmd \in {"add", "change", "add-birthday"}
       /\ last.out.msg \notin SuccessMessages =>
       /\ book = last.book
       /\ pc = "input" => NamesOf(load_data(disk)) \subseteq NamesOf(last.book)

=============================================================================
